---- MODULE Spec2Model ----
(***************************************************************************)
(* Model of weather_server.py: the JSON-RPC dispatcher behind POST /sse    *)
(* (handle_sse_endpoint), its upstream OpenMeteo calls, and the GET /sse   *)
(* event stream fed by the module-level message_queue.                     *)
(*                                                                         *)
(* Python values are tagged records (type |-> "dict", "str", ...); JSON    *)
(* documents on the wire are tagged records of their own (json |-> ...).   *)
(* A Python expression that may raise evaluates to Ok(v) or Raise(e).      *)
(***************************************************************************)
EXTENDS Integers, Sequences, FiniteSets, TLC

\* ------------------------------------------------------------------ bounds
MaxCalls == 2
MaxStreams == 2
MaxMessages == 2

Calls == 1..MaxCalls
Streams == 1..MaxStreams

\* ----------------------------------------------------------- Python values
None == [type |-> "NoneType"]
PyStr(s) == [type |-> "str", s |-> s]
\* an f-string: the sequence of its literal and formatted parts
PyFStr(parts) == [type |-> "str", parts |-> parts]
PyInt(i) == [type |-> "int", i |-> i]
PyDict(d) == [type |-> "dict", d |-> d]
PyList(l) == [type |-> "list", l |-> l]
\* an object json.dumps cannot serialise (bytes, set, ...)
PyBytes(b) == [type |-> "bytes", b |-> b]
EmptyDict == PyDict([k \in {} |-> None])

Ok(v) == [value |-> v]
Raise(e) == [raised |-> e]
Raised(o) == "raised" \in DOMAIN o

\* -------------------------------------------------------- JSON on the wire
JNull == [json |-> "null"]
JNum(n) == [json |-> "number", n |-> n]
JStr(s) == [json |-> "string", s |-> s]
JText(parts) == [json |-> "string", parts |-> parts]
JObj(o) == [json |-> "object", o |-> o]
JArr(a) == [json |-> "array", a |-> a]
\* bytes that are no JSON document
Invalid == [json |-> "invalid"]

\* json.loads: the Python value of a JSON document
RECURSIVE loads(_)
loads(j) ==
    CASE j.json = "null" -> None
      [] j.json = "number" -> PyInt(j.n)
      [] j.json = "string" -> IF "s" \in DOMAIN j THEN PyStr(j.s) ELSE PyFStr(j.parts)
      [] j.json = "object" -> PyDict([k \in DOMAIN j.o |-> loads(j.o[k])])
      [] j.json = "array" -> PyList([i \in DOMAIN j.a |-> loads(j.a[i])])

\* json.dumps of a value built from None, int, str, dict and list
RECURSIVE dumps(_)
dumps(v) ==
    CASE v.type = "NoneType" -> JNull
      [] v.type = "int" -> JNum(v.i)
      [] v.type = "str" -> IF "s" \in DOMAIN v THEN JStr(v.s)
                           ELSE IF "parts" \in DOMAIN v THEN JText(v.parts)
                           ELSE JText(<<v>>)
      [] v.type = "dict" -> JObj([k \in DOMAIN v.d |-> dumps(v.d[k])])
      [] v.type = "list" -> JArr([i \in DOMAIN v.l |-> dumps(v.l[i])])

\* whether json.dumps accepts the value (it raises TypeError otherwise)
RECURSIVE serializable(_)
serializable(v) ==
    CASE v.type \in {"NoneType", "int", "str"} -> TRUE
      [] v.type = "dict" -> \A k \in DOMAIN v.d : serializable(v.d[k])
      [] v.type = "list" -> \A i \in DOMAIN v.l : serializable(v.l[i])
      [] OTHER -> FALSE

\* request.json(): raises on a body that is not JSON
request_json(body) ==
    IF body = Invalid THEN Raise("JSONDecodeError") ELSE Ok(loads(body))

\* dict.get(key, default); only a dict has the method
has_get(v) == v.type = "dict"
get(v, key, default) == IF key \in DOMAIN v.d THEN v.d[key] ELSE default

\* variant: a missing key reads as None, as dict.get does
subscript_defaulting(v, key) ==
    IF v.type = "dict"
    THEN Ok(get(v, key, None))
    ELSE Raise("TypeError")

\* v[key] for a string key
subscript(v, key) ==
    IF v.type = "dict"
    THEN IF key \in DOMAIN v.d THEN Ok(v.d[key]) ELSE Raise("KeyError")
    ELSE Raise("TypeError")

\* variant: the index counts from 1
index_from_one(v, i) ==
    CASE v.type = "list" -> IF i + 2 \in DOMAIN v.l THEN Ok(v.l[i + 2]) ELSE Raise("IndexError")
      [] v.type = "dict" -> Raise("KeyError")
      [] OTHER -> Raise("TypeError")

\* v[i] for an integer i >= 0 (Python counts from 0); v is a list, a dict,
\* a number or None (a string is never indexed by the payloads used here)
index(v, i) ==
    CASE v.type = "list" -> IF i + 1 \in DOMAIN v.l THEN Ok(v.l[i + 1]) ELSE Raise("IndexError")
      [] v.type = "dict" -> Raise("KeyError")
      [] OTHER -> Raise("TypeError")

\* {x} inside an f-string, str(x): a string is itself, any other value is
\* rendered as text; it never fails on a JSON-derived value
format(v) == IF v.type = "str" THEN v ELSE [type |-> "str", str_of |-> v]

\* first exception raised by a left-to-right evaluation of the outcomes os
AnyRaised(os) == \E i \in DOMAIN os : Raised(os[i])
FirstRaised(os) ==
    os[CHOOSE i \in DOMAIN os : Raised(os[i]) /\ \A j \in 1..(i - 1) : ~Raised(os[j])]

\* ------------------------------------------------------ result formatting
WEATHER_CODES ==
    (0 :> "Helder") @@ (1 :> "Overwegend helder") @@ (2 :> "Gedeeltelijk bewolkt")
    @@ (3 :> "Bewolkt") @@ (45 :> "Mist") @@ (48 :> "Aanvriezende mist")
    @@ (51 :> "Lichte motregen") @@ (53 :> "Matige motregen") @@ (55 :> "Dichte motregen")
    @@ (61 :> "Lichte regen") @@ (63 :> "Matige regen") @@ (65 :> "Zware regen")
    @@ (71 :> "Lichte sneeuw") @@ (73 :> "Matige sneeuw") @@ (75 :> "Zware sneeuw")
    @@ (77 :> "Sneeuwkorrels") @@ (80 :> "Lichte buien") @@ (81 :> "Matige buien")
    @@ (82 :> "Zware buien") @@ (85 :> "Lichte sneeuwbuien") @@ (86 :> "Zware sneeuwbuien")
    @@ (95 :> "Onweer") @@ (96 :> "Onweer met lichte hagel") @@ (99 :> "Onweer met zware hagel")

\* variant: WEATHER_CODES[code], which raises KeyError for a code not in the table
get_weather_description_subscript(code) ==
    CASE code.type \in {"list", "dict"} -> Raise("TypeError")
      [] code.type = "int" /\ code.i \in DOMAIN WEATHER_CODES -> Ok(PyStr(WEATHER_CODES[code.i]))
      [] OTHER -> Raise("KeyError")

\* WEATHER_CODES.get(code, "Onbekend"); an unhashable key raises TypeError
get_weather_description(code) ==
    CASE code.type \in {"list", "dict"} -> Raise("TypeError")
      [] code.type = "int" /\ code.i \in DOMAIN WEATHER_CODES -> Ok(PyStr(WEATHER_CODES[code.i]))
      [] OTHER -> Ok(PyStr("Onbekend"))

\* int(x) of the quotient num/den, den > 0: truncation towards zero
int_trunc(num, den) == IF num >= 0 THEN num \div den ELSE -((-num) \div den)

directions == <<"N", "NO", "O", "ZO", "Z", "ZW", "W", "NW">>

\* variant: the sectors start at the compass points instead of being centred on them
wind_sector_without_offset(tenths) == int_trunc(tenths, 450) % 8

\* int((wind_dir + 22.5) / 45) % 8, the bearing given in tenths of a degree
wind_sector(tenths) == int_trunc(tenths + 225, 450) % 8

\* get_temperature: f"Current temperature: {temp}{unit}"
temperature_text(api_data) ==
    LET cur == subscript(api_data, "current") IN
    IF Raised(cur) THEN cur ELSE
    LET temp == subscript(cur.value, "temperature_2m") IN
    IF Raised(temp) THEN temp ELSE
    LET units == subscript(api_data, "current_units") IN
    IF Raised(units) THEN units ELSE
    LET unit == subscript(units.value, "temperature_2m") IN
    IF Raised(unit) THEN unit ELSE
    Ok(PyFStr(<<PyStr("Current temperature: "), format(temp.value), format(unit.value)>>))

\* get_current_weather: the six-line "Actueel weer" text (the pictographs
\* that open each line and the degree signs are left out of the literal parts)
current_weather_text(api_data) ==
    LET cur == subscript(api_data, "current") IN
    IF Raised(cur) THEN cur ELSE
    LET current == cur.value
        wind_dir == subscript(current, "wind_direction_10m")
    IN
    IF Raised(wind_dir) THEN wind_dir ELSE
    IF wind_dir.value.type # "int" THEN Raise("TypeError") ELSE
    LET wind_dir_text == directions[wind_sector(10 * wind_dir.value.i) + 1]
        fields == << subscript(current, "temperature_2m"),
                     subscript(current, "apparent_temperature"),
                     subscript(current, "relative_humidity_2m"),
                     subscript(current, "precipitation"),
                     subscript(current, "wind_speed_10m"),
                     subscript(current, "weather_code") >>
    IN
    IF AnyRaised(fields) THEN FirstRaised(fields) ELSE
    LET description == get_weather_description(fields[6].value) IN
    IF Raised(description) THEN description ELSE
    Ok(PyFStr(<< PyStr("Actueel weer:\nTemperatuur: "), format(fields[1].value),
                 PyStr(" C (voelt als "), format(fields[2].value),
                 PyStr(" C)\nLuchtvochtigheid: "), format(fields[3].value),
                 PyStr("%\nNeerslag: "), format(fields[4].value),
                 PyStr(" mm\nWind: "), format(fields[5].value),
                 PyStr(" km/u "), PyStr(wind_dir_text),
                 PyStr("\nConditie: "), description.value >>))

FORECAST_DAYS == 5

\* one pass of the loop body of get_forecast for day i (0-based)
forecast_line(daily, i) ==
    LET column(key) ==
            LET col == subscript(daily, key) IN
            IF Raised(col) THEN col ELSE index(col.value, i)
        fields == << column("time"), column("temperature_2m_max"),
                     column("temperature_2m_min"), column("precipitation_sum"),
                     column("weather_code") >>
    IN
    IF AnyRaised(fields) THEN FirstRaised(fields) ELSE
    LET weather == get_weather_description(fields[5].value) IN
    IF Raised(weather) THEN weather ELSE
    Ok(PyFStr(<< format(fields[1].value), PyStr(": "), weather.value, PyStr(", "),
                 format(fields[3].value), PyStr(" C - "), format(fields[2].value),
                 PyStr(" C, neerslag: "), format(fields[4].value), PyStr("mm") >>))

\* sep.join(lines)
RECURSIVE join(_, _)
join(sep, lines) ==
    IF Len(lines) = 0 THEN <<>>
    ELSE IF Len(lines) = 1 THEN <<lines[1]>>
    ELSE <<lines[1], sep>> \o join(sep, Tail(lines))

\* get_forecast: the header and one line per day, joined by newlines
forecast_text(api_data) ==
    LET d == subscript(api_data, "daily") IN
    IF Raised(d) THEN d ELSE
    LET daily == d.value
        lines == [i \in 1..FORECAST_DAYS |-> forecast_line(daily, i - 1)]
    IN
    IF AnyRaised(lines) THEN FirstRaised(lines) ELSE
    LET forecast_lines == <<PyStr("5-daagse weersverwachting:\n")>>
                          \o [i \in 1..FORECAST_DAYS |-> lines[i].value]
    IN Ok(PyFStr(join(PyStr("\n"), forecast_lines)))

\* ------------------------------------------------------------- POST /sse
\* Response(content=..., status_code=..., media_type="application/json")
Response(content, status_code) ==
    [status_code |-> status_code, media_type |-> "application/json", content |-> content]

\* what a run of the handler ends in: a response handed to the transport,
\* an exception leaving handle_sse_endpoint, or a suspension at client.get
Responds(response) == [kind |-> "response", response |-> response]
Escapes(e) == [kind |-> "escaped", exception |-> e]
Awaits(data, branch) == [kind |-> "await", data |-> data, branch |-> branch]

\* variant: the except block lets the exception go on
except_handler_reraises(data_bound, data, e) == Escapes(e)

\* variant: the except block reads data.get("id") without asking whether
\* data is bound
except_handler_unguarded(data_bound, data, e) ==
    IF ~data_bound \/ ~has_get(data)
    THEN Escapes(IF data_bound THEN "AttributeError" ELSE "UnboundLocalError")
    ELSE Responds(Response(
            dumps(PyDict([jsonrpc |-> PyStr("2.0"), id |-> get(data, "id", None),
                          error |-> PyDict([code |-> PyInt(-32603), message |-> PyStr(e)])])),
            500))

\* the except block: data.get("id") is evaluated whenever data is bound
except_handler(data_bound, data, e) ==
    IF data_bound /\ ~has_get(data)
    THEN Escapes("AttributeError")
    ELSE Responds(Response(
            dumps(PyDict([jsonrpc |-> PyStr("2.0"),
                          id |-> IF data_bound THEN get(data, "id", None) ELSE None,
                          error |-> PyDict([code |-> PyInt(-32603), message |-> PyStr(e)])])),
            500))

\* variant: the result envelope does not echo the id
result_response_without_id(data, result) ==
    Responds(Response(
        dumps(PyDict([jsonrpc |-> PyStr("2.0"), id |-> None, result |-> result])),
        200))

\* {"jsonrpc": "2.0", "id": data.get("id"), "result": result}, status 200
result_response(data, result) ==
    Responds(Response(
        dumps(PyDict([jsonrpc |-> PyStr("2.0"), id |-> get(data, "id", None), result |-> result])),
        200))

\* variant: the error envelope carries the internal-error code
error_response_internal_code(data, code, message) ==
    Responds(Response(
        dumps(PyDict([jsonrpc |-> PyStr("2.0"), id |-> get(data, "id", None),
                      error |-> PyDict([code |-> PyInt(-32603), message |-> message])])),
        200))

\* {"jsonrpc": "2.0", "id": data.get("id"), "error": {code, message}}, status 200
error_response(data, code, message) ==
    Responds(Response(
        dumps(PyDict([jsonrpc |-> PyStr("2.0"), id |-> get(data, "id", None),
                      error |-> PyDict([code |-> PyInt(code), message |-> message])])),
        200))

initialize_result ==
    PyDict([protocolVersion |-> PyStr("2025-11-25"),
            capabilities |-> PyDict([tools |-> EmptyDict]),
            serverInfo |-> PyDict([name |-> PyStr("weather-server"), version |-> PyStr("2.0.0")])])

\* a tool of tools/list; the descriptions are abridged (the source appends the
\* fixed location to each)
tool_descriptor(name, description) ==
    PyDict([name |-> PyStr(name), description |-> PyStr(description),
            inputSchema |-> PyDict([type |-> PyStr("object"), properties |-> EmptyDict,
                                    required |-> PyList(<<>>)])])

\* variant: the list announces a tool that tools/call has no branch for
tools_list_result_with_unimplemented ==
    PyDict([tools |-> PyList(<<
        tool_descriptor("get_temperature", "Get current temperature"),
        tool_descriptor("get_current_weather", "Get detailed current weather"),
        tool_descriptor("get_forecast", "Get 5-day weather forecast"),
        tool_descriptor("get_humidity", "Get current humidity") >>)])

tools_list_result ==
    PyDict([tools |-> PyList(<<
        tool_descriptor("get_temperature", "Get current temperature"),
        tool_descriptor("get_current_weather", "Get detailed current weather"),
        tool_descriptor("get_forecast", "Get 5-day weather forecast") >>)])

\* the names tools/list announces
ToolNames == {"get_temperature", "get_current_weather", "get_forecast"}

\* variant: the chain ends in the forecast branch instead of the else
tool_branch_without_else(tool_name) ==
    CASE tool_name = PyStr("get_temperature") -> "get_temperature"
      [] tool_name = PyStr("get_current_weather") -> "get_current_weather"
      [] OTHER -> "get_forecast"

\* the if/elif chain on tool_name: the branch taken, "unknown" for the else
tool_branch(tool_name) ==
    CASE tool_name = PyStr("get_temperature") -> "get_temperature"
      [] tool_name = PyStr("get_current_weather") -> "get_current_weather"
      [] tool_name = PyStr("get_forecast") -> "get_forecast"
      [] OTHER -> "unknown"

content_result(result_text) ==
    PyDict([content |-> PyList(<<PyDict([type |-> PyStr("text"), text |-> result_text])>>)])

\* the handler from its entry to its first suspension at client.get, or to its end
post_dispatch(body) ==
    LET parsed == request_json(body) IN
    IF Raised(parsed) THEN except_handler(FALSE, None, parsed.raised) ELSE
    LET data == parsed.value IN
    IF ~has_get(data) THEN except_handler(TRUE, data, "AttributeError") ELSE
    LET method == get(data, "method", None) IN
    IF method = PyStr("initialize") THEN result_response(data, initialize_result)
    ELSE IF method = PyStr("tools/list") THEN result_response(data, tools_list_result)
    ELSE IF method = PyStr("tools/call") THEN
        LET params == get(data, "params", EmptyDict) IN
        IF ~has_get(params) THEN except_handler(TRUE, data, "AttributeError") ELSE
        LET tool_name == get(params, "name", None) IN
        IF tool_branch(tool_name) # "unknown"
        THEN Awaits(data, tool_branch(tool_name))
        ELSE error_response(data, -32601, PyFStr(<<PyStr("Unknown tool: "), format(tool_name)>>))
    ELSE error_response(data, -32601, PyFStr(<<PyStr("Unknown method: "), format(method)>>))

\* the query a branch sends upstream: which fields it selects
upstream_query(branch) ==
    CASE branch = "get_temperature" -> [current |-> "temperature_2m"]
      [] branch = "get_current_weather" ->
            [current |-> "temperature_2m,apparent_temperature,relative_humidity_2m,precipitation,weather_code,wind_speed_10m,wind_direction_10m"]
      [] branch = "get_forecast" ->
            [daily |-> "temperature_2m_max,temperature_2m_min,precipitation_sum,weather_code",
             forecast_days |-> FORECAST_DAYS]

\* client.get, raise_for_status and api_response.json() on the provider's reply
upstream_data(reply) ==
    IF "error" \in DOMAIN reply THEN Raise(reply.error)
    ELSE IF reply.status \notin 200..299 THEN Raise("HTTPStatusError")
    ELSE IF reply.body = Invalid THEN Raise("JSONDecodeError")
    ELSE Ok(loads(reply.body))

tool_text(branch, api_data) ==
    CASE branch = "get_temperature" -> temperature_text(api_data)
      [] branch = "get_current_weather" -> current_weather_text(api_data)
      [] branch = "get_forecast" -> forecast_text(api_data)

\* the handler from the provider's reply to its end
post_resume(data, branch, reply) ==
    LET api == upstream_data(reply) IN
    IF Raised(api) THEN except_handler(TRUE, data, api.raised) ELSE
    LET result_text == tool_text(branch, api.value) IN
    IF Raised(result_text) THEN except_handler(TRUE, data, result_text.raised)
    ELSE result_response(data, content_result(result_text.value))

\* ---------------------------------------------------------------- inputs
NoField == [k \in {} |-> JNull]

IdFields == {NoField, "id" :> JNull, "id" :> JNum(1), "id" :> JStr("a")}

NameFields ==
    {NoField} \cup {"name" :> JStr(t) : t \in ToolNames \cup {"get_humidity"}}

ParamsFields ==
    {NoField, "params" :> JNull} \cup {"params" :> JObj(n) : n \in NameFields}

MethodFields ==
    {NoField, "method" :> JNull}
    \cup {"method" :> JStr(m) : m \in {"initialize", "tools/list", "resources/list"}}

\* the bodies a client may POST: no JSON at all, JSON that is no object, and
\* objects with and without id, method, params and params.name
RequestBodies ==
    {Invalid, JArr(<<>>), JStr("ping"), JNum(7)}
    \cup {JObj(i @@ m) : i \in IdFields, m \in MethodFields}
    \cup {JObj(i @@ ("method" :> JStr("tools/call")) @@ q) :
            i \in IdFields \ {"id" :> JNull}, q \in ParamsFields}

Column(days, base) == JArr([i \in 1..days |-> JNum(base + i)])

\* a payload with every field any of the three tools reads
FullPayload ==
    JObj([current |-> JObj([temperature_2m |-> JNum(14), apparent_temperature |-> JNum(12),
                            relative_humidity_2m |-> JNum(80), precipitation |-> JNum(0),
                            weather_code |-> JNum(3), wind_speed_10m |-> JNum(20),
                            wind_direction_10m |-> JNum(200)]),
          current_units |-> JObj([temperature_2m |-> JStr("C")]),
          daily |-> JObj([time |-> Column(FORECAST_DAYS, 0),
                          temperature_2m_max |-> Column(FORECAST_DAYS, 20),
                          temperature_2m_min |-> Column(FORECAST_DAYS, 10),
                          precipitation_sum |-> Column(FORECAST_DAYS, 0),
                          weather_code |-> Column(FORECAST_DAYS, 0)])])

\* a payload that lacks a field of each tool: no current_units, no wind
\* direction, one day too few
PartialPayload ==
    JObj([current |-> JObj([temperature_2m |-> JNum(14), apparent_temperature |-> JNum(12),
                            relative_humidity_2m |-> JNum(80), precipitation |-> JNum(0),
                            weather_code |-> JNum(3), wind_speed_10m |-> JNum(20)]),
          daily |-> JObj([time |-> Column(FORECAST_DAYS - 1, 0),
                          temperature_2m_max |-> Column(FORECAST_DAYS - 1, 20),
                          temperature_2m_min |-> Column(FORECAST_DAYS - 1, 10),
                          precipitation_sum |-> Column(FORECAST_DAYS - 1, 0),
                          weather_code |-> Column(FORECAST_DAYS - 1, 0)])])

\* what the provider may answer: a transport failure, a non-success status,
\* a body that is no JSON, and payloads with and without the expected fields
UpstreamReplies ==
    { [error |-> "ConnectError"], [status |-> 500, body |-> Invalid],
      [status |-> 200, body |-> Invalid], [status |-> 200, body |-> FullPayload],
      [status |-> 200, body |-> PartialPayload] }

\* ----------------------------------------------------------------- state
VARIABLES
    calls,          \* per POST /sse connection: idle, or suspended at client.get
    http_out,       \* the exchange completed last: request, upstream traffic, outcome
    message_queue,  \* the module-level asyncio.Queue
    streams,        \* per GET /sse connection: the generator's position and frames
    produced,       \* how many messages were put on message_queue so far
    messages_out,   \* the POST /messages, /health or / exchange completed last
    probe           \* a formatting function's input and, once applied, its output

vars == <<calls, http_out, message_queue, streams, produced, messages_out, probe>>
post_vars == <<calls, http_out>>
stream_vars == <<message_queue, streams, produced>>
aux_vars == <<messages_out, probe>>

Idle == [pc |-> "idle"]
NoExchange == [request |-> Invalid, sent |-> <<>>, replies |-> <<>>, outcome |-> [kind |-> "none"]]

\* variant: the request being served is kept in one place shared by all
\* connections: the call suspended first
locals_shared(c) == calls[CHOOSE d \in Calls : calls[d].pc = "upstream"]

\* the locals of the coroutine that serves connection c
locals(c) == calls[c]

Exchange(request, sent, replies, outcome) ==
    [request |-> request, sent |-> sent, replies |-> replies, outcome |-> outcome]

UpstreamFailed(reply) == "error" \in DOMAIN reply \/ reply.status \notin 200..299

\* POST /sse arrives on connection c: the handler runs to its end, or to client.get
PostSse(c, body) ==
    /\ calls[c] = Idle
    /\ LET o == post_dispatch(body) IN
       IF o.kind = "await"
       THEN /\ calls' = [calls EXCEPT ![c] =
                    [pc |-> "upstream", request |-> body, data |-> o.data,
                     branch |-> o.branch, sent |-> <<upstream_query(o.branch)>>]]
            /\ UNCHANGED http_out
       ELSE /\ http_out' = Exchange(body, <<>>, <<>>, o)
            /\ UNCHANGED calls
    /\ UNCHANGED <<stream_vars, aux_vars>>

\* variant: after a failed reply the handler sends the request once more
UpstreamReply_retries(c, reply) ==
    /\ calls[c].pc = "upstream"
    /\ IF UpstreamFailed(reply) /\ Len(calls[c].sent) = 1
       THEN /\ calls' = [calls EXCEPT ![c].sent = Append(@, upstream_query(calls[c].branch))]
            /\ UNCHANGED http_out
       ELSE /\ http_out' = Exchange(calls[c].request, calls[c].sent, <<reply>>,
                                    post_resume(calls[c].data, calls[c].branch, reply))
            /\ calls' = [calls EXCEPT ![c] = Idle]
    /\ UNCHANGED <<stream_vars, aux_vars>>

\* the provider answers the call suspended on connection c: the handler resumes
UpstreamReply(c, reply) ==
    /\ calls[c].pc = "upstream"
    /\ LET l == locals(c) IN
       http_out' = Exchange(calls[c].request, calls[c].sent, <<reply>>,
                            post_resume(l.data, l.branch, reply))
    /\ calls' = [calls EXCEPT ![c] = Idle]
    /\ UNCHANGED <<stream_vars, aux_vars>>

InitPost ==
    /\ calls = [c \in Calls |-> Idle]
    /\ http_out = NoExchange

\* -------------------------------------------------------------- GET /sse
\* timeout=30.0 of asyncio.wait_for, and the grain in which time advances
TIMEOUT == 30
TimeStep == TIMEOUT \div 6

\* f"data: {json.dumps(message)}\n\n" and ": keepalive\n\n"
DataFrame(message) == [frame |-> "data", data |-> dumps(message)]
KeepAlive == [frame |-> "comment", text |-> "keepalive"]

Unopened == [pc |-> "unopened", frames |-> <<>>, waited |-> 0]
Waiting(s) == streams[s].pc = "waiting"

\* the n-th message put on the queue: a JSON-serialisable dict, or an object
\* json.dumps rejects
Messages(n) == {PyDict([seq |-> PyInt(n)]), PyBytes(n)}

\* message_queue.put_nowait(message), by whoever holds the module's queue
Enqueue(message) ==
    /\ produced < MaxMessages
    /\ message \in Messages(produced + 1)
    /\ message_queue' = Append(message_queue, message)
    /\ produced' = produced + 1
    /\ UNCHANGED <<streams, post_vars, aux_vars>>

\* GET /sse on connection s: event_stream() starts and waits on the queue
GetSse(s) ==
    /\ streams[s].pc = "unopened"
    /\ streams' = [streams EXCEPT ![s] = [pc |-> "waiting", frames |-> <<>>, waited |-> 0]]
    /\ UNCHANGED <<message_queue, produced, post_vars, aux_vars>>

\* variant: the newest message is taken instead of the oldest
StreamGet_newest_first(s) ==
    /\ Waiting(s)
    /\ message_queue # <<>>
    /\ LET message == message_queue[Len(message_queue)] IN
       streams' = [streams EXCEPT ![s] =
            IF serializable(message)
            THEN [pc |-> "waiting", frames |-> Append(@.frames, DataFrame(message)), waited |-> 0]
            ELSE [pc |-> "ended", frames |-> @.frames, waited |-> 0]]
    /\ message_queue' = SubSeq(message_queue, 1, Len(message_queue) - 1)
    /\ UNCHANGED <<produced, post_vars, aux_vars>>

\* variant: the message is read but left on the queue
StreamGet_leaves_message(s) ==
    /\ Waiting(s)
    /\ message_queue # <<>>
    /\ LET message == Head(message_queue) IN
       streams' = [streams EXCEPT ![s] =
            IF serializable(message)
            THEN [pc |-> "waiting", frames |-> Append(@.frames, DataFrame(message)), waited |-> 0]
            ELSE [pc |-> "ended", frames |-> @.frames, waited |-> 0]]
    /\ UNCHANGED <<message_queue, produced, post_vars, aux_vars>>

\* message_queue.get() returns within the timeout: the message is framed and
\* the loop waits again; a message json.dumps rejects ends the stream silently
StreamGet(s) ==
    /\ Waiting(s)
    /\ message_queue # <<>>
    /\ LET message == Head(message_queue) IN
       streams' = [streams EXCEPT ![s] =
            IF serializable(message)
            THEN [pc |-> "waiting", frames |-> Append(@.frames, DataFrame(message)), waited |-> 0]
            ELSE [pc |-> "ended", frames |-> @.frames, waited |-> 0]]
    /\ message_queue' = Tail(message_queue)
    /\ UNCHANGED <<produced, post_vars, aux_vars>>

\* variant: after the keepalive the generator waits again
StreamTimeout_keeps_waiting(s) ==
    /\ Waiting(s)
    /\ streams[s].waited >= TIMEOUT
    /\ message_queue = <<>>
    /\ streams' = [streams EXCEPT ![s] =
            [pc |-> "waiting", frames |-> Append(@.frames, KeepAlive), waited |-> 0]]
    /\ UNCHANGED <<message_queue, produced, post_vars, aux_vars>>

\* asyncio.TimeoutError: one keepalive frame, then the generator returns
StreamTimeout(s) ==
    /\ Waiting(s)
    /\ streams[s].waited >= TIMEOUT
    /\ message_queue = <<>>
    /\ streams' = [streams EXCEPT ![s] =
            [pc |-> "ended", frames |-> Append(@.frames, KeepAlive), waited |-> @.waited]]
    /\ UNCHANGED <<message_queue, produced, post_vars, aux_vars>>

\* the client goes away while the generator waits: the wait is cancelled
StreamDisconnect(s) ==
    /\ Waiting(s)
    /\ streams' = [streams EXCEPT ![s] = [pc |-> "disconnected", frames |-> @.frames, waited |-> @.waited]]
    /\ UNCHANGED <<message_queue, produced, post_vars, aux_vars>>

\* time passes for every waiting generator; a queued message is handed to a
\* waiting generator, and a due timeout fires, before time moves on
Tick ==
    /\ \E s \in Streams : Waiting(s)
    /\ message_queue = <<>>
    /\ \A s \in Streams : Waiting(s) => streams[s].waited < TIMEOUT
    /\ streams' = [s \in Streams |->
            IF Waiting(s) THEN [streams[s] EXCEPT !.waited = @ + TimeStep] ELSE streams[s]]
    /\ UNCHANGED <<message_queue, produced, post_vars, aux_vars>>

InitStream ==
    /\ message_queue = <<>>
    /\ streams = [s \in Streams |-> Unopened]
    /\ produced = 0

\* ----------------------------------------- POST /messages, /health and /
\* Response(...) of the endpoints that are no JSON-RPC dispatcher; the
\* status code defaults to 200
PlainResponse(content, status_code, media_type) ==
    [status_code |-> status_code, media_type |-> media_type, content |-> content]

\* the except block of handle_messages: json.dumps({"error": str(e)}), 500
messages_except(e) ==
    PlainResponse(dumps(PyDict([error |-> PyStr(e)])), 500, "application/json")

\* handle_messages: the fixed acknowledgement with the id of the request
handle_messages(body) ==
    LET parsed == request_json(body) IN
    IF Raised(parsed) THEN messages_except(parsed.raised) ELSE
    LET data == parsed.value IN
    IF ~has_get(data) THEN messages_except("AttributeError") ELSE
    PlainResponse(
        dumps(PyDict([jsonrpc |-> PyStr("2.0"), id |-> get(data, "id", None),
                      result |-> PyDict([status |-> PyStr("ok")])])),
        200, "application/json")

health_check == PlainResponse(PyStr("OK"), 200, "none")

\* the info page; its text is abridged to its first line
root == PlainResponse(PyStr("MCP Weather Server v2.0"), 200, "text/plain")

NoMessages == [endpoint |-> "none"]

\* variant: handle_messages hands the message it received to the streams
PostMessages_enqueues(body) ==
    /\ messages_out' = [endpoint |-> "/messages", request |-> body,
                        response |-> handle_messages(body)]
    /\ message_queue' = IF body = Invalid THEN message_queue
                        ELSE Append(message_queue, loads(body))
    /\ UNCHANGED <<streams, produced, post_vars, probe>>

\* POST /messages with the given body
PostMessages(body) ==
    /\ messages_out' = [endpoint |-> "/messages", request |-> body,
                        response |-> handle_messages(body)]
    /\ UNCHANGED <<post_vars, stream_vars, probe>>

\* GET /health
HealthCheck ==
    /\ messages_out' = [endpoint |-> "/health", response |-> health_check]
    /\ UNCHANGED <<post_vars, stream_vars, probe>>

\* GET /
Root ==
    /\ messages_out' = [endpoint |-> "/", response |-> root]
    /\ UNCHANGED <<post_vars, stream_vars, probe>>

\* Starlette(debug=True): an exception that leaves a handler is answered by
\* the framework itself, with status 500 and the traceback as the body
transport_response(outcome) ==
    IF outcome.kind = "escaped"
    THEN PlainResponse([traceback |-> outcome.exception], 500, "text/plain")
    ELSE outcome.response

\* the bodies POSTed to /messages: no JSON, JSON that is no object, and
\* objects with and without an id
MessageBodies ==
    {Invalid, JArr(<<>>), JObj("id" :> JNum(1)), JObj("method" :> JStr("ping"))}

\* the POST /sse traffic next to the other endpoints: one tool call and the
\* provider's answer to it
ServerBodies ==
    {JObj(("id" :> JNum(1)) @@ ("method" :> JStr("tools/call"))
          @@ ("params" :> JObj("name" :> JStr("get_temperature"))))}
ServerReplies == {[status |-> 200, body |-> FullPayload]}

\* ---------------------------------------- the formatting functions alone
MaxTenths == 3599
MaxCode == 100

\* a JSON object without one of its keys, and with one key set
Without(obj, key) == JObj([k \in DOMAIN obj.o \ {key} |-> obj.o[k]])
With(obj, key, val) ==
    JObj([k \in DOMAIN obj.o \cup {key} |-> IF k = key THEN val ELSE obj.o[k]])

\* what each tool reads of the payload
CurrentFields ==
    {"temperature_2m", "apparent_temperature", "relative_humidity_2m", "precipitation",
     "weather_code", "wind_speed_10m", "wind_direction_10m"}
DailyFields ==
    {"time", "temperature_2m_max", "temperature_2m_min", "precipitation_sum", "weather_code"}

\* a payload with one day more than was asked for
LongPayload ==
    With(FullPayload, "daily",
         JObj([k \in DailyFields |-> Column(FORECAST_DAYS + 1, IF k = "time" THEN 0 ELSE 60)]))

\* the payloads the provider may send: complete ones, and the complete one
\* with one section, one field of a section or one day of a column missing
Payloads ==
    {FullPayload, PartialPayload, LongPayload}
    \cup {Without(FullPayload, k) : k \in {"current", "current_units", "daily"}}
    \cup {With(FullPayload, "current", Without(FullPayload.o.current, k)) : k \in CurrentFields}
    \cup {With(FullPayload, "current_units", JObj(NoField))}
    \cup {With(FullPayload, "daily", Without(FullPayload.o.daily, k)) : k \in DailyFields}
    \cup {With(FullPayload, "daily",
               With(FullPayload.o.daily, k,
                    JArr(SubSeq(FullPayload.o.daily.o[k].a, 1, FORECAST_DAYS - 1)))) :
            k \in DailyFields}

\* the complete payload with the given condition code, and with the given
\* wind bearing in whole degrees
PayloadWithCode(code) ==
    With(FullPayload, "current", With(FullPayload.o.current, "weather_code", JNum(code)))
PayloadWithBearing(degrees) ==
    With(FullPayload, "current", With(FullPayload.o.current, "wind_direction_10m", JNum(degrees)))

\* the request a probed tool call answers
ProbeData == PyDict([id |-> PyInt(1)])

Probes ==
    {[kind |-> "tool", input |-> [branch |-> b, payload |-> p], done |-> FALSE,
      output |-> [kind |-> "none"]] : b \in ToolNames, p \in Payloads}
    \cup {[kind |-> "code", input |-> c, done |-> FALSE, output |-> [kind |-> "none"]] :
            c \in (-1)..MaxCode}
    \cup {[kind |-> "wind", input |-> t, done |-> FALSE, output |-> [kind |-> "none"]] :
            t \in 0..MaxTenths}

\* a tools/call branch from the provider's payload to the response
FormatTool ==
    /\ probe.kind = "tool" /\ ~probe.done
    /\ probe' = [probe EXCEPT !.done = TRUE,
                    !.output = post_resume(ProbeData, probe.input.branch,
                                           [status |-> 200, body |-> probe.input.payload])]
    /\ UNCHANGED <<post_vars, stream_vars, messages_out>>

\* get_weather_description(code), and get_current_weather on that code
DescribeCode ==
    /\ probe.kind = "code" /\ ~probe.done
    /\ probe' = [probe EXCEPT !.done = TRUE,
                    !.output = [description |-> get_weather_description(PyInt(probe.input)),
                                handler |-> post_resume(ProbeData, "get_current_weather",
                                    [status |-> 200, body |-> PayloadWithCode(probe.input)])]]
    /\ UNCHANGED <<post_vars, stream_vars, messages_out>>

\* the compass label of a bearing, and get_current_weather on that bearing
\* when it is a whole number of degrees
WindLabel ==
    /\ probe.kind = "wind" /\ ~probe.done
    /\ probe' = [probe EXCEPT !.done = TRUE,
                    !.output = [index |-> wind_sector(probe.input),
                                label |-> directions[wind_sector(probe.input) + 1],
                                handler |->
                                    IF probe.input % 10 = 0
                                    THEN post_resume(ProbeData, "get_current_weather",
                                            [status |-> 200,
                                             body |-> PayloadWithBearing(probe.input \div 10)])
                                    ELSE [kind |-> "none"]]]
    /\ UNCHANGED <<post_vars, stream_vars, messages_out>>

InitFormat ==
    /\ InitPost /\ InitStream
    /\ messages_out = NoMessages
    /\ probe \in Probes

NextFormat == FormatTool \/ DescribeCode \/ WindLabel

\* the three formatting paths, each applied to one drawn input
SpecFormat == InitFormat /\ [][NextFormat]_vars

InitAux ==
    /\ messages_out = NoMessages
    /\ probe = [kind |-> "none"]

Init == InitPost /\ InitStream /\ InitAux

NextPost ==
    \/ \E c \in Calls, body \in RequestBodies : PostSse(c, body)
    \/ \E c \in Calls, reply \in UpstreamReplies : UpstreamReply(c, reply)

NextStream ==
    \/ \E m \in Messages(produced + 1) : Enqueue(m)
    \/ \E s \in Streams : GetSse(s)
    \/ \E s \in Streams : StreamGet(s)
    \/ \E s \in Streams : StreamTimeout(s)
    \/ \E s \in Streams : StreamDisconnect(s)
    \/ Tick

Next == NextPost \/ NextStream

\* the whole server
Spec == Init /\ [][Next]_vars
\* the POST /sse dispatcher alone; it shares no variable with the streams
SpecPost == Init /\ [][NextPost]_vars
\* the GET /sse streams and the queue alone
SpecStream == Init /\ [][NextStream]_vars

\* every endpoint of the server, the POST /sse traffic kept to one tool call
NextServer ==
    \/ \E c \in Calls, body \in ServerBodies : PostSse(c, body)
    \/ \E c \in Calls, reply \in ServerReplies : UpstreamReply(c, reply)
    \/ \E body \in MessageBodies : PostMessages(body)
    \/ HealthCheck
    \/ Root
    \/ NextStream

SpecServer == Init /\ [][NextServer]_vars

\* ------------------------------------------------- observing an exchange
Completed == http_out.outcome.kind # "none"
HasResponse == http_out.outcome.kind = "response"
Envelope == http_out.outcome.response.content.o
RequestIsObject == http_out.request.json = "object"
RequestField(key) ==
    IF RequestIsObject /\ key \in DOMAIN http_out.request.o THEN http_out.request.o[key] ELSE JNull
RequestMethodIs(m) == RequestIsObject /\ RequestField("method") = JStr(m)
RegisteredMethod == \E m \in {"initialize", "tools/list", "tools/call"} : RequestMethodIs(m)
\* params.name of the request, when params is an object that has one
RequestToolName ==
    IF RequestField("params").json = "object" /\ "name" \in DOMAIN RequestField("params").o
    THEN RequestField("params").o.name ELSE JNull
RegisteredTool == \E t \in ToolNames : RequestToolName = JStr(t)
HasResult == HasResponse /\ "result" \in DOMAIN Envelope
HasError == HasResponse /\ "error" \in DOMAIN Envelope
ErrorCodeIs(code) == HasError /\ Envelope.error.o.code = JNum(code)
EchoesId == HasResponse /\ "id" \in DOMAIN Envelope /\ Envelope.id = RequestField("id")

\* ---------------------------------------------------------------- claims
\* C1: a POST /sse whose body is a JSON object with method initialize,
\* tools/list or tools/call is answered with the request's id (null when the
\* request has none) and with exactly one of result and error.
C1_IdEchoedOneOfResultError ==
    (Completed /\ RegisteredMethod) =>
        /\ EchoesId
        /\ HasResult # HasError

C1_Witness ==
    /\ RequestMethodIs("tools/call") /\ RequestField("id") = JNum(1)
    /\ http_out.replies # <<>> /\ HasResult /\ Envelope.id = JNum(1)

\* C2: every POST /sse body whatsoever is answered with one response
\* envelope; no exception leaves handle_sse_endpoint.
C2_NoExceptionEscapes ==
    Completed => (HasResponse /\ EchoesId /\ HasResult # HasError)

\* C3: a POST /sse whose body is a JSON object with a method other than
\* initialize, tools/list and tools/call, or with no method, is answered with
\* an error envelope of code -32601.
C3_UnknownMethodNotFound ==
    (Completed /\ RequestIsObject /\ ~RegisteredMethod) =>
        (ErrorCodeIs(-32601) /\ ~HasResult)

C3_Witness ==
    /\ Completed /\ RequestIsObject /\ "method" \notin DOMAIN http_out.request.o
    /\ ErrorCodeIs(-32601)

\* C4: a tools/call whose tool name is not registered (params.name is none
\* of the three tools, or is missing, or params is missing or null) is
\* answered with an error envelope of code -32601.
C4_UnknownToolNotFound ==
    (Completed /\ RequestMethodIs("tools/call") /\ ~RegisteredTool) =>
        (ErrorCodeIs(-32601) /\ ~HasResult)

\* C6: a POST /sse body that is no JSON is answered with an error envelope
\* of code -32603 and id null.
C6_UnparseableInternalErrorNullId ==
    (Completed /\ http_out.request = Invalid) =>
        (ErrorCodeIs(-32603) /\ ~HasResult /\ "id" \in DOMAIN Envelope /\ Envelope.id = JNull)

C6_Witness == Completed /\ http_out.request = Invalid /\ ErrorCodeIs(-32603)

\* C7: a call that fails at parsing (a body that is no JSON) or at routing
\* (unknown method, unknown tool name) is answered with an error envelope
\* without ever being executed: no upstream request is issued for it, and no
\* such call is ever suspended at the upstream call.
FailsBeforeExecution(request) ==
    \/ request = Invalid
    \/ /\ request.json = "object"
       /\ LET method == IF "method" \in DOMAIN request.o THEN request.o.method ELSE JNull
              params == IF "params" \in DOMAIN request.o THEN request.o.params ELSE JObj(NoField)
          IN \/ method \notin {JStr("initialize"), JStr("tools/list"), JStr("tools/call")}
             \/ /\ method = JStr("tools/call")
                /\ params.json = "object"
                /\ \A t \in ToolNames : "name" \notin DOMAIN params.o \/ params.o.name # JStr(t)

C7_FailureNeverExecuted ==
    /\ (Completed /\ FailsBeforeExecution(http_out.request)) =>
            (HasError /\ http_out.sent = <<>> /\ http_out.replies = <<>>)
    /\ \A c \in Calls : calls[c].pc = "upstream" => ~FailsBeforeExecution(calls[c].request)

C7_Witness ==
    /\ Completed /\ RequestMethodIs("tools/call") /\ RequestToolName = JStr("get_humidity")
    /\ ErrorCodeIs(-32601) /\ http_out.sent = <<>>
    /\ \E c \in Calls : calls[c].pc = "upstream"

\* C5: when the provider answers a tools/call with a non-success status, the
\* call is answered with an error envelope of code -32603 that echoes the
\* request id, and the server goes on: answering it touches no other call in
\* flight, and the exchange completed next is served as it would have been
\* before.
FailedUpstreamExchange ==
    /\ Completed /\ http_out.replies # <<>>
    /\ "status" \in DOMAIN http_out.replies[1] /\ http_out.replies[1].status \notin 200..299

ServedNormally ==
    /\ (RequestMethodIs("initialize") \/ RequestMethodIs("tools/list")) =>
            (HasResult /\ ~HasError /\ EchoesId /\ http_out.outcome.response.status_code = 200)
    /\ (RequestIsObject /\ ~RegisteredMethod) => ErrorCodeIs(-32601)
    /\ (RequestMethodIs("tools/call") /\ RegisteredTool
            /\ http_out.replies = <<[status |-> 200, body |-> FullPayload]>>) =>
            (HasResult /\ ~HasError /\ EchoesId)

C5_UpstreamFailureAnswered ==
    /\ [](FailedUpstreamExchange => (ErrorCodeIs(-32603) /\ ~HasResult /\ EchoesId))
    /\ [][(FailedUpstreamExchange /\ http_out' # http_out) => ServedNormally']_vars
    /\ [][(FailedUpstreamExchange' /\ http_out' # http_out) =>
            /\ Cardinality({c \in Calls : calls'[c] # calls[c]}) = 1
            /\ UNCHANGED stream_vars]_vars

C5_Witness ==
    /\ FailedUpstreamExchange /\ http_out.replies[1].status = 500
    /\ ErrorCodeIs(-32603) /\ RequestField("id") = JStr("a") /\ Envelope.id = JStr("a")
    /\ \E c \in Calls : calls[c].pc = "upstream"

\* C10: in every interleaving of concurrent tools/call requests, each call
\* is answered with its own request id, after the upstream query of its own
\* tool, and with the result text of its own tool.
ToolHeader(t) ==
    CASE t = "get_temperature" -> "Current temperature: "
      [] t = "get_current_weather" -> "Actueel weer:\nTemperatuur: "
      [] t = "get_forecast" -> "5-daagse weersverwachting:\n"

ResultText == Envelope.result.o.content.a[1].o.text

C10_NoCrossTalk ==
    (Completed /\ RequestMethodIs("tools/call") /\ RegisteredTool) =>
        LET t == RequestToolName.s IN
        /\ EchoesId
        /\ Len(http_out.sent) = 1
        /\ ("daily" \in DOMAIN http_out.sent[1]) <=> (t = "get_forecast")
        /\ (t = "get_temperature") <=>
                ("current" \in DOMAIN http_out.sent[1] /\ http_out.sent[1].current = "temperature_2m")
        /\ HasResult => ResultText.parts[1] = PyStr(ToolHeader(t))

C10_Witness ==
    /\ RequestMethodIs("tools/call") /\ RequestToolName = JStr("get_temperature")
    /\ RequestField("id") = JNum(1) /\ HasResult /\ Envelope.id = JNum(1)
    /\ ResultText.parts[1] = PyStr("Current temperature: ")
    /\ \E c \in Calls :
            /\ calls[c].pc = "upstream" /\ calls[c].branch = "get_forecast"
            /\ "id" \in DOMAIN calls[c].request.o /\ calls[c].request.o.id = JStr("a")

\* C8: on a GET /sse stream, when the 30-unit wait ends with no queued
\* message, one keepalive frame is emitted and the stream ends: a keepalive
\* is only ever the last frame of an ended stream, it is emitted only at the
\* timeout with the queue empty, and an ended stream emits nothing more.
KeepAlives(frames) == {i \in DOMAIN frames : frames[i] = KeepAlive}

C8_KeepaliveThenEnd ==
    /\ [](\A s \in Streams :
            /\ Cardinality(KeepAlives(streams[s].frames)) <= 1
            /\ KeepAlives(streams[s].frames) # {} =>
                    /\ streams[s].pc = "ended"
                    /\ streams[s].frames[Len(streams[s].frames)] = KeepAlive)
    /\ [][\A s \in Streams :
            /\ (Waiting(s) /\ streams[s].waited >= TIMEOUT /\ message_queue = <<>>
                    /\ streams'[s].pc = "ended") =>
                    streams'[s].frames = Append(streams[s].frames, KeepAlive)
            /\ KeepAlives(streams'[s].frames) # KeepAlives(streams[s].frames) =>
                    (Waiting(s) /\ streams[s].waited >= TIMEOUT /\ message_queue = <<>>)
            /\ streams[s].pc = "ended" => streams'[s] = streams[s]]_vars

C8_Witness ==
    \E s \in Streams :
        /\ streams[s].pc = "ended" /\ streams[s].waited = TIMEOUT
        /\ Len(streams[s].frames) = 2
        /\ streams[s].frames[1].frame = "data" /\ streams[s].frames[2] = KeepAlive

\* C9: within one GET /sse stream the messages are framed in the order in
\* which they were put on the queue, and after framing a message the stream
\* waits for the next one with a fresh timeout.
DataFrames(frames) == {i \in DOMAIN frames : frames[i].frame = "data"}
\* messages carry the number of their put, so the order of puts is the order of numbers
SeqOf(frame) == frame.data.o.seq.n

C9_FifoWithinStream ==
    /\ [](\A s \in Streams : \A i, j \in DataFrames(streams[s].frames) :
            i < j => SeqOf(streams[s].frames[i]) < SeqOf(streams[s].frames[j]))
    /\ [][\A s \in Streams :
            DataFrames(streams'[s].frames) # DataFrames(streams[s].frames) =>
                /\ message_queue # <<>>
                /\ streams'[s].frames = Append(streams[s].frames, DataFrame(Head(message_queue)))
                /\ message_queue' = Tail(message_queue)
                /\ streams'[s].pc = "waiting" /\ streams'[s].waited = 0]_vars

C9_Witness ==
    \E s \in Streams :
        /\ Len(streams[s].frames) = 2
        /\ streams[s].frames[1] = DataFrame(PyDict([seq |-> PyInt(1)]))
        /\ streams[s].frames[2] = DataFrame(PyDict([seq |-> PyInt(2)]))
        /\ Waiting(s)


\* C11: delivery to streams is at most once: with any number of concurrent
\* streams on the one queue, a message is framed on at most one stream, at
\* most once there, and a framed message is no longer on the queue.
Deliveries(n) ==
    {p \in Streams \X (1..(MaxMessages + 1)) :
        /\ p[2] \in DataFrames(streams[p[1]].frames)
        /\ SeqOf(streams[p[1]].frames[p[2]]) = n}

QueuedNumbers ==
    {IF message_queue[i].type = "dict" THEN message_queue[i].d.seq.i ELSE message_queue[i].b :
        i \in DOMAIN message_queue}

C11_AtMostOnce ==
    /\ \A s \in Streams : Len(streams[s].frames) <= MaxMessages + 1
    /\ \A n \in 1..produced :
        /\ Cardinality(Deliveries(n)) <= 1
        /\ Deliveries(n) # {} => n \notin QueuedNumbers

C11_Witness ==
    /\ produced = 2
    /\ \E s, t \in Streams :
        /\ s # t /\ Waiting(s) /\ Waiting(t)
        /\ Deliveries(1) = {<<s, 1>>} /\ Deliveries(2) = {<<t, 1>>}


\* ------------------------------------------- observing a formatting probe
HasKey(j, k) == j.json = "object" /\ k \in DOMAIN j.o
HasPath(j, k1, k2) == HasKey(j, k1) /\ HasKey(j.o[k1], k2)
HasDays(j, k, n) ==
    HasPath(j, "daily", k) /\ j.o.daily.o[k].json = "array" /\ Len(j.o.daily.o[k].a) >= n

\* the payload lacks a field the tool reads
Lacks(tool, payload) ==
    CASE tool = "get_temperature" ->
            \/ ~HasPath(payload, "current", "temperature_2m")
            \/ ~HasPath(payload, "current_units", "temperature_2m")
      [] tool = "get_current_weather" ->
            \E k \in CurrentFields : ~HasPath(payload, "current", k)
      [] tool = "get_forecast" ->
            \E k \in DailyFields : ~HasDays(payload, k, FORECAST_DAYS)

ToolProbed == probe.kind = "tool" /\ probe.done
ProbeEnvelope(outcome) == outcome.response.content.o
ProbeIsResult(outcome) ==
    /\ outcome.kind = "response"
    /\ DOMAIN ProbeEnvelope(outcome) = {"jsonrpc", "id", "result"}
ProbeIsInternalError(outcome) ==
    /\ outcome.kind = "response"
    /\ DOMAIN ProbeEnvelope(outcome) = {"jsonrpc", "id", "error"}
    /\ ProbeEnvelope(outcome).error.o.code = JNum(-32603)
ProbeText(outcome) == ProbeEnvelope(outcome).result.o.content.a[1].o.text.parts

\* C12: a call of a registered tool whose upstream payload lacks a field the
\* tool reads (a missing section, a missing key of a section, a column with
\* fewer than five days) ends in the internal-error envelope and in no
\* result; a payload that lacks nothing is answered with a result
C12_MissingFieldIsError ==
    ToolProbed =>
        IF Lacks(probe.input.branch, probe.input.payload)
        THEN ProbeIsInternalError(probe.output) /\ ~ProbeIsResult(probe.output)
        ELSE ProbeIsResult(probe.output)

C12_Witness ==
    /\ ToolProbed
    /\ probe.input.branch = "get_current_weather"
    /\ probe.input.payload =
            With(FullPayload, "current", Without(FullPayload.o.current, "weather_code"))
    /\ ProbeIsInternalError(probe.output)


\* C13: a tools/call of a registered tool issues exactly one upstream GET:
\* the request is sent once when the handler suspends, the handler ends on
\* the first reply of the provider, a failure included, and the completed
\* exchange shows one request sent and one reply received.
C13_SingleAttempt ==
    /\ [](\A c \in Calls : calls[c].pc = "upstream" => Len(calls[c].sent) = 1)
    /\ []((Completed /\ RequestMethodIs("tools/call") /\ RegisteredTool) =>
            Len(http_out.sent) = 1 /\ Len(http_out.replies) = 1)
    /\ [][\A c \in Calls :
            (calls[c].pc = "upstream" /\ calls'[c] # calls[c]) =>
                /\ calls'[c] = Idle
                /\ http_out'.sent = calls[c].sent
                /\ Len(http_out'.replies) = 1]_vars

C13_Witness ==
    /\ Completed /\ RequestMethodIs("tools/call") /\ RegisteredTool
    /\ Len(http_out.sent) = 1
    /\ http_out.replies = <<[error |-> "ConnectError"]>>
    /\ ErrorCodeIs(-32603)
    /\ \A c \in Calls : calls[c] = Idle


\* the day lines of a forecast text: its f-string parts, in order
DayLines(parts) == SelectSeq(parts, LAMBDA p : "parts" \in DOMAIN p)
\* a part that holds one line break: the separator of the join, and the
\* header literal, which ends in one
EndsLine(part) == part \in {PyStr("\n"), PyStr("5-daagse weersverwachting:\n")}
\* the number of lines of a text made of the given parts
LineCount(parts) == 1 + Cardinality({i \in DOMAIN parts : EndsLine(parts[i])})

ForecastProbed ==
    /\ ToolProbed /\ probe.input.branch = "get_forecast"
    /\ ProbeIsResult(probe.output)

\* the date and the four values line i of the text shows, as sent upstream
DayOf(payload, i) ==
    [k \in DailyFields |-> format(loads(payload.o.daily.o[k].a[i]))]

\* C14, as stated: the forecast text consists of exactly n lines for the n
\* requested days (n = 5).
C14_ExactlyNLines ==
    ForecastProbed => LineCount(ProbeText(probe.output)) = FORECAST_DAYS

\* C14, amended: the forecast text is a header line, an empty line and
\* exactly n day lines (n = 5), n + 2 lines in all; day line i shows the
\* date, the temperatures and the precipitation of the provider's i-th day,
\* so the provider's order is kept, and days beyond the fifth are left out.
C14_HeaderAndNDayLinesInOrder ==
    ForecastProbed =>
        LET parts == ProbeText(probe.output)
            days == DayLines(parts)
        IN
        /\ parts[1] = PyStr("5-daagse weersverwachting:\n")
        /\ LineCount(parts) = FORECAST_DAYS + 2
        /\ Len(days) = FORECAST_DAYS
        /\ \A i \in 1..FORECAST_DAYS :
            LET day == DayOf(probe.input.payload, i) IN
            /\ parts[2 * i + 1] = days[i]
            /\ days[i].parts[1] = day["time"]
            /\ days[i].parts[5] = day["temperature_2m_min"]
            /\ days[i].parts[7] = day["temperature_2m_max"]
            /\ days[i].parts[9] = day["precipitation_sum"]

C14_Witness ==
    /\ ForecastProbed
    /\ probe.input.payload = LongPayload
    /\ Len(DayLines(ProbeText(probe.output))) = FORECAST_DAYS
    /\ DayLines(ProbeText(probe.output))[FORECAST_DAYS].parts[1] = format(PyInt(FORECAST_DAYS))


WindProbed == probe.kind = "wind" /\ probe.done

\* C15: the compass label of a bearing d in [0, 360) is the element at
\* index floor((d + 22.5) / 45) mod 8 of N, NO, O, ZO, Z, ZW, W, NW (d in
\* tenths of a degree here): the index is within 0..7, the bearings within
\* 22.5 degrees of 45 * k get label k, those from 337.5 on wrap to N, the
\* four bearings 0, 22.4, 22.6 and 359.9 get N, N, NO and N, and
\* get_current_weather writes that label into its text.
C15_WindLabel ==
    WindProbed =>
        LET t == probe.input
            idx == probe.output.index
        IN
        /\ idx \in 0..7
        /\ idx = ((t + 225) \div 450) % 8
        /\ probe.output.label = <<"N", "NO", "O", "ZO", "Z", "ZW", "W", "NW">>[idx + 1]
        /\ \A k \in 0..7 : (450 * k - 225 <= t /\ t < 450 * k + 225) => idx = k
        /\ t >= 3375 => idx = 0
        /\ t \in {0, 224, 3599} => probe.output.label = "N"
        /\ t = 226 => probe.output.label = "NO"
        /\ t % 10 = 0 =>
            /\ ProbeIsResult(probe.output.handler)
            /\ ProbeText(probe.output.handler)[12] = PyStr(probe.output.label)

C15_Witness ==
    /\ WindProbed
    /\ probe.input = 3599
    /\ probe.output.index = 0 /\ probe.output.label = "N"


CodeProbed == probe.kind = "code" /\ probe.done

\* C16: get_weather_description returns the description the table holds for
\* a code that is in it and "Onbekend" for every integer code that is not;
\* it raises nothing, and get_current_weather on a payload with that code
\* answers with a result whose text ends in that description.
C16_DescriptionOrOnbekend ==
    CodeProbed =>
        LET code == probe.input
            expected == IF code \in DOMAIN WEATHER_CODES THEN WEATHER_CODES[code]
                        ELSE "Onbekend"
        IN
        /\ ~Raised(probe.output.description)
        /\ probe.output.description.value = PyStr(expected)
        /\ code \in {0, 3, 45, 99} => expected # "Onbekend"
        /\ code \in {-1, 4, 100} => expected = "Onbekend"
        /\ ProbeIsResult(probe.output.handler)
        /\ ProbeText(probe.output.handler)[14] = PyStr(expected)

C16_Witness ==
    /\ CodeProbed
    /\ probe.input = 4
    /\ probe.output.description = Ok(PyStr("Onbekend"))
    /\ ProbeIsResult(probe.output.handler)


\* ------------------------------------------- observing the other endpoints
MessagesAnswered == messages_out.endpoint = "/messages"
MessagesBody == messages_out.response.content
MessagesRequestId ==
    IF messages_out.request.json = "object" /\ "id" \in DOMAIN messages_out.request.o
    THEN messages_out.request.o.id ELSE JNull

\* C17: every POST /messages, one with an unparseable or a non-object body
\* included, is answered with a JSON-RPC envelope: jsonrpc "2.0", the id of
\* the request (null when it has none) and exactly one of result and error,
\* an error being an object with a code and a message; on success the result
\* is the fixed acknowledgement.
C17_MessagesAlwaysEnvelope ==
    MessagesAnswered =>
        /\ MessagesBody.json = "object"
        /\ {"jsonrpc", "id"} \subseteq DOMAIN MessagesBody.o
        /\ MessagesBody.o.jsonrpc = JStr("2.0")
        /\ MessagesBody.o.id = MessagesRequestId
        /\ ("result" \in DOMAIN MessagesBody.o) # ("error" \in DOMAIN MessagesBody.o)
        /\ "error" \in DOMAIN MessagesBody.o =>
                /\ MessagesBody.o.error.json = "object"
                /\ DOMAIN MessagesBody.o.error.o = {"code", "message"}
        /\ messages_out.response.status_code = 200 =>
                /\ "result" \in DOMAIN MessagesBody.o
                /\ MessagesBody.o.result = JObj([status |-> JStr("ok")])


\* the names the tools/list result announces
ListedNames ==
    {tools_list_result.d.tools.l[i].d.name.s : i \in DOMAIN tools_list_result.d.tools.l}
\* the names of the tools array of a tools/list response
EnvelopeToolNames == {Envelope.result.o.tools.a[i].o.name.s : i \in DOMAIN Envelope.result.o.tools.a}
\* the request is a tools/call whose params is an object with a string name
NamesATool == RequestMethodIs("tools/call") /\ RequestToolName.json = "string"

\* C18: the names tools/list returns are the names tools/call executes: a
\* call of a listed name reaches the upstream request and is never answered
\* with -32601, a call of a name that is not listed sends nothing upstream
\* and is answered with -32601, only listed names are ever in flight, and
\* every tools/list response of a run announces the same three names.
C18_ListedIffExecuted ==
    /\ \A c \in Calls : calls[c].pc = "upstream" => calls[c].branch \in ListedNames
    /\ (HasResult /\ RequestMethodIs("tools/list")) =>
            /\ EnvelopeToolNames = ListedNames
            /\ Len(Envelope.result.o.tools.a) = Cardinality(ListedNames)
    /\ (Completed /\ NamesATool) =>
            IF RequestToolName.s \in ListedNames
            THEN /\ Len(http_out.sent) = 1
                 /\ DOMAIN http_out.sent[1] = DOMAIN upstream_query(RequestToolName.s)
                 /\ ~ErrorCodeIs(-32601)
            ELSE /\ http_out.sent = <<>>
                 /\ ErrorCodeIs(-32601)

C18_Witness ==
    /\ Completed /\ NamesATool
    /\ RequestToolName = JStr("get_forecast")
    /\ Len(http_out.sent) = 1 /\ HasResult
    /\ \E c \in Calls : calls[c].pc = "upstream" /\ calls[c].branch = "get_temperature"


\* C19: no operation of the server (POST /sse, POST /messages, GET /sse,
\* GET /health, GET /) puts a message on the queue: the only step that
\* lengthens the queue is a put from outside the server. As long as nothing
\* outside has put a message the queue is empty, no stream has emitted a
\* data frame, and a stream that has ended by itself has emitted its one
\* keepalive frame and nothing else.
C19_ServerNeverEnqueues ==
    /\ [][Len(message_queue') > Len(message_queue) => produced' = produced + 1]_vars
    /\ [](produced = 0 =>
            /\ message_queue = <<>>
            /\ \A s \in Streams :
                /\ streams[s].frames \in {<<>>, <<KeepAlive>>}
                /\ streams[s].frames = <<KeepAlive>> => ~Waiting(s))

C19_Witness ==
    /\ produced = 0 /\ message_queue = <<>>
    /\ \E s \in Streams : ~Waiting(s) /\ streams[s].frames = <<KeepAlive>>
    /\ MessagesAnswered /\ messages_out.response.status_code = 200
    /\ Completed /\ Len(http_out.sent) = 1


\* what the client of the exchange completed last receives
Received == transport_response(http_out.outcome)
ReceivedEnvelopeWithError(code) ==
    /\ Received.media_type = "application/json"
    /\ Received.content.json = "object"
    /\ DOMAIN Received.content.o = {"jsonrpc", "id", "error"}
    /\ Received.content.o.error.o.code = JNum(code)
ReceivedResultEnvelope ==
    /\ Received.media_type = "application/json"
    /\ Received.content.json = "object"
    /\ DOMAIN Received.content.o = {"jsonrpc", "id", "result"}

\* C20: a POST /sse response has HTTP status 500 if and only if its body is
\* an error envelope with code -32603; a result envelope and an error
\* envelope with code -32601 are sent with status 200.
C20_Status500IffInternalError ==
    Completed =>
        /\ (Received.status_code = 500) <=> ReceivedEnvelopeWithError(-32603)
        /\ (ReceivedResultEnvelope \/ ReceivedEnvelopeWithError(-32601)) =>
                Received.status_code = 200

====
